---- MODULE Spec2Model ----
(***************************************************************************)
(* Duplicate classification and resolution of exported analytics events    *)
(* (src/src/transform/model.rs), over the ExportEvent record of            *)
(* src/src/common/amplitude_types.rs.                                      *)
(*                                                                         *)
(* Encoding.                                                               *)
(*   Option<T>      : None is << >>, Some(x) is <<x>>.                     *)
(*   String (keys)  : a sequence of text segments.  The segments are the   *)
(*                    word "Submitted", the word "Completed", a piece of   *)
(*                    other text "X", and the text of one hyphenated UUID. *)
(*                    No concatenation of the other segments contains the  *)
(*                    word "Submitted", so str::replace acts per segment.  *)
(*   HashMap<K,V>   : a function from the present keys to their values.    *)
(*   DateTime<Utc>  : a natural number.                                    *)
(*   Vec<T>         : a sequence.                                          *)
(***************************************************************************)
EXTENDS Integers, Sequences, FiniteSets, TLC

VARIABLES events, dupe, res, pc, eq, report, differences,
          comparison, cleaned,
          input, insert_id_groups, dupe_analysis, analysis_files,
          final_events,
          non_uuid_events, included,
          progress_file, progress_at_start, completed_insert_ids,
          user_events, sent, uploaded, uploaded_events,
          failed_uploads_count, run

\* The analysis of one duplicate group.
groupVars == <<events, dupe, res, pc>>

\* The comparison of two events: PartialEq, the cross-snapshot comparison and
\* the two diffs.
pairVars == <<eq, report, differences, comparison, cleaned>>

\* One run of clean_duplicates_and_types over the parsed input.
cleanVars ==
    <<insert_id_groups, dupe_analysis, analysis_files, final_events>>

\* One UUIDDeduplicationFilter and the answers it gave.
filterVars == <<non_uuid_events, included>>

\* The uploader: the progress file, and the state of the current run.
uploadVars ==
    <<progress_file, progress_at_start, completed_insert_ids, user_events,
      sent, uploaded, uploaded_events, failed_uploads_count, run>>

\* The tools that read a directory of exported events.
toolVars == <<input, cleanVars, filterVars, uploadVars>>

vars == <<groupVars, pairVars, toolVars>>

\* ------------------------------------------------------------------------
\* Bounds of the model
\* ------------------------------------------------------------------------
MaxTime == 2

MaxGroupSize == 3

\* ------------------------------------------------------------------------
\* Option<T>
\* ------------------------------------------------------------------------
None == << >>

Some(x) == <<x>>

IsSome(o) == o # None

Unwrap(o) == o[1]

\* Ord for Option<DateTime<Utc>>: None sorts before every Some.
OptLt(a, b) ==
    IF a = None THEN b # None
    ELSE b # None /\ Unwrap(a) < Unwrap(b)

\* ------------------------------------------------------------------------
\* Strings
\* ------------------------------------------------------------------------
UuidText == "550e8400-e29b-41d4-a716-446655440000"

\* str::replace(from, to): every occurrence of `from` becomes `to`.
Replace(s, from, to) ==
    [i \in 1..Len(s) |-> IF s[i] = from THEN to ELSE s[i]]

\* A parse that accepts no key.
IsUuid_never(s) == FALSE

\* uuid::Uuid::parse_str(..).is_ok(): the whole string is the text of a UUID.
IsUuid(s) == s = <<UuidText>>

\* ------------------------------------------------------------------------
\* ExportEvent
\* ------------------------------------------------------------------------
Submitted == "Property Pre-Order Submitted"

Completed == "Property Pre-Order Completed"

\* HashMap::get
Get(m, k) == IF k \in DOMAIN m THEN Some(m[k]) ELSE None

\* The ignore list of the derived PartialEq of ExportEvent.
IgnoredFields ==
    {"city", "country", "device_carrier", "device_family", "device_type",
     "event_id", "ip_address", "os_name", "os_version", "platform",
     "client_upload_time", "processed_time", "server_received_time",
     "server_upload_time", "user_properties", "uuid", "language", "region",
     "dma", "data", "start_version", "version_name"}

\* The fields of an event that the derived PartialEq compares: all but the
\* ignored ones.
ComparedFields(a) == (DOMAIN a) \ IgnoredFields

\* An equality that ignores no field.
EventEq_all_fields(a, b) == a = b

\* impl PartialEq for ExportEvent
EventEq(a, b) == \A f \in ComparedFields(a) : a[f] = b[f]

\* ------------------------------------------------------------------------
\* Input domains
\* ------------------------------------------------------------------------
Keys ==
    { <<"X">>, <<"Submitted", "X">>, <<"Submitted", "X", "Submitted">>,
      <<UuidText>> }

EventTypes == {Some(Submitted), Some(Completed), Some("Other")}

Times == {None} \cup {Some(t) : t \in 1..MaxTime}

PropValues == {"a", "b"}

RuleKeys == {"Property", "Drop Type", "Price per Share"}

\* Option<HashMap<String, Value>>: absent, the three watched properties with
\* any values, or a single property under one of two names.
PropMaps ==
    [RuleKeys -> PropValues]
    \cup {[k \in {"Property"} |-> "a"], [k \in {"PropertyName"} |-> "a"],
          [k \in {"PropertyName"} |-> "b"]}

EventProps == {None} \cup {Some(m) : m \in PropMaps}

UserIds == {Some("u1"), Some("u2")}

Uuids == {Some("g1"), Some("g2")}

ExportEvent(k, ty, t, p, u, g) ==
    [insert_id |-> Some(k), event_type |-> ty, client_upload_time |-> t,
     event_properties |-> p, user_id |-> u, uuid |-> g]

\* The records that may carry key k.
Records(k) ==
    {ExportEvent(k, ty, t, p, u, g) :
        ty \in EventTypes, t \in Times, p \in EventProps, u \in UserIds,
        g \in Uuids}

\* The records used to fill groups of more than two.
ThinRecords(k) ==
    {ExportEvent(k, ty, t, p, Some("u1"), Some("g1")) :
        ty \in {None, Some(Submitted), Some(Completed)},
        t \in {None, Some(1)},
        p \in {None, Some([k2 \in {"Property"} |-> "a"])}}

\* Duplicate groups: the records of one insert_id, two or more of them.
Groups ==
    UNION {[1..2 -> Records(k)] : k \in Keys}
    \cup UNION {[1..n -> ThinRecords(k)] : k \in Keys, n \in 3..MaxGroupSize}

\* ------------------------------------------------------------------------
\* DupeType
\* ------------------------------------------------------------------------
DupeType(tag, items) == [tag |-> tag, items |-> items, types |-> << >>]

Multi(items, types) == [tag |-> "Multi", items |-> items, types |-> types]

\* A panic of the classifier or the resolver (index out of bounds, unwrap of
\* None): no value is returned.
Panic == [tag |-> "panic", items |-> << >>, types |-> << >>]

\* A set_tentative that wraps the previous result without flattening it.
set_tentative_nested(tentative, v, evs) ==
    IF tentative = None THEN Some(v)
    ELSE Some(Multi(evs, <<Unwrap(tentative), v>>))

\* The closure set_tentative of from_events: the first type stands alone, a
\* later one is appended to the sub-types collected so far.
set_tentative(tentative, v, evs) ==
    IF tentative = None THEN Some(v)
    ELSE LET prev == Unwrap(tentative)
             current_col == IF prev.tag = "Multi" THEN prev.types ELSE <<prev>>
         IN Some(Multi(evs, Append(current_col, v)))

\* The state threaded through from_events.
Acc(tentative, skip_diff_check) ==
    [tentative |-> tentative, skip_diff_check |-> skip_diff_check]

\* A pair check that wants the Submitted record first.
pre_order_check_in_order(acc, evs) ==
    IF /\ Len(evs) = 2
       /\ evs[1].event_type = Some(Submitted)
       /\ evs[2].event_type = Some(Completed)
    THEN Acc(set_tentative(acc.tentative,
                           DupeType("PreOrderDropCompletedMistake", evs), evs),
             TRUE)
    ELSE acc

\* One Submitted and one Completed record under the same insert_id.
pre_order_check(acc, evs) ==
    IF /\ \E i \in 1..Len(evs) : evs[i].event_type = Some(Submitted)
       /\ \E i \in 1..Len(evs) : evs[i].event_type = Some(Completed)
    THEN Acc(set_tentative(acc.tentative,
                           DupeType("PreOrderDropCompletedMistake", evs), evs),
             TRUE)
    ELSE acc

\* One watched property of two present event_properties maps.
property_check(acc, evs, first_props, second_props, key, tag) ==
    IF Get(first_props, key) # Get(second_props, key)
    THEN Acc(set_tentative(acc.tentative, DupeType(tag, evs), evs), TRUE)
    ELSE acc

\* The three property checks on a server-sent (non-UUID) pair, in order.
server_sent_checks(acc, evs, first_props, second_props) ==
    LET a1 == property_check(acc, evs, first_props, second_props,
                             "Property", "PropertyNameChange")
        a2 == property_check(a1, evs, first_props, second_props,
                             "Drop Type", "DropTypeChange")
    IN property_check(a2, evs, first_props, second_props,
                      "Price per Share", "PropertyDropPriceChange")

\* The match on the two event_properties, entered when they are unequal.
event_properties_check(acc, evs) ==
    LET first == evs[1]
        second == evs[2]
    IN IF first.event_properties = second.event_properties THEN acc
       ELSE IF IsSome(first.event_properties) /\ IsSome(second.event_properties)
       THEN IF first.insert_id = None THEN Acc(Some(Panic), TRUE)
            ELSE IF IsUuid(Unwrap(first.insert_id))
            THEN Acc(set_tentative(acc.tentative, DupeType("Unknown", evs), evs),
                     acc.skip_diff_check)
            ELSE server_sent_checks(acc, evs, Unwrap(first.event_properties),
                                    Unwrap(second.event_properties))
       ELSE Acc(set_tentative(acc.tentative,
                              DupeType("EventPropsIncompatible", evs), evs),
                acc.skip_diff_check)

\* A classifier without the equality check.
diff_check_skipped(acc, evs) == acc

\* The equality check, skipped when skip_diff_check was set.
diff_check(acc, evs) ==
    IF acc.skip_diff_check THEN acc
    ELSE IF EventEq(evs[1], evs[2])
    THEN Acc(set_tentative(acc.tentative, DupeType("TrueDuplicate", evs), evs),
             acc.skip_diff_check)
    ELSE Acc(set_tentative(acc.tentative, DupeType("UnknownPropDiff", evs), evs),
             acc.skip_diff_check)

\* A size test that lets groups of three through.
too_many_above_three(evs) == Len(evs) > 3

\* More than two records: no rule is evaluated.
too_many(evs) == Len(evs) > 2

\* DupeType::from_events
from_events(evs) ==
    IF too_many(evs) THEN DupeType("TooMany", evs)
    ELSE IF Len(evs) < 2 THEN Panic
    ELSE LET a1 == pre_order_check(Acc(None, FALSE), evs)
             a2 == event_properties_check(a1, evs)
             a3 == diff_check(a2, evs)
         IN IF a2.tentative = Some(Panic) THEN Panic
            ELSE IF IsSome(a3.tentative) THEN Unwrap(a3.tentative)
            ELSE DupeType("Unknown", evs)

\* ------------------------------------------------------------------------
\* DupeResolution
\* ------------------------------------------------------------------------
KeepOne(e) == [kind |-> "KeepOne", kept |-> <<e>>, error |-> None]

KeepMany(es) == [kind |-> "KeepMany", kept |-> es, error |-> None]

Error(d) == [kind |-> "Error", kept |-> << >>, error |-> Some(d)]

ResolutionPanic == [kind |-> "panic", kept |-> << >>, error |-> None]

\* The loop over the items of a PreOrderDropCompletedMistake: the last item
\* of the given event type, if any.
last_of_type(items, ty) ==
    LET at == {i \in 1..Len(items) : items[i].event_type = Some(ty)}
    IN IF at = {} THEN None
       ELSE Some(items[CHOOSE i \in at : \A j \in at : j <= i])

\* The completed record with "Submitted" replaced by "Completed" in its
\* insert_id.
rewrite_insert_id(completed) ==
    IF IsSome(completed.insert_id)
    THEN [completed EXCEPT
            !.insert_id = Some(Replace(Unwrap(completed.insert_id),
                                       "Submitted", "Completed"))]
    ELSE completed

\* A resolver that keeps the two records in input order.
resolve_pre_order_input_order(items) ==
    KeepMany([i \in 1..Len(items) |->
                IF items[i].event_type = Some(Completed)
                THEN rewrite_insert_id(items[i]) ELSE items[i]])

\* resolution of PreOrderDropCompletedMistake
resolve_pre_order(items) ==
    LET submitted_event == last_of_type(items, Submitted)
        completed_event == last_of_type(items, Completed)
    IN KeepMany(
         (IF IsSome(submitted_event) THEN <<Unwrap(submitted_event)>> ELSE << >>)
         \o (IF IsSome(completed_event)
             THEN <<rewrite_insert_id(Unwrap(completed_event))>> ELSE << >>))

\* A choice by position in the input instead of by upload time.
earlier_later_by_position(items) == <<items[1], items[2]>>

\* The choice of (earlier_event, later_event) among the first two items.
earlier_later(items) ==
    IF OptLt(items[1].client_upload_time, items[2].client_upload_time)
    THEN <<items[1], items[2]>>
    ELSE <<items[2], items[1]>>

\* resolution of DropTypeChange, PropertyNameChange, PropertyDropPriceChange
resolve_property_change(items) ==
    IF Len(items) < 2 THEN ResolutionPanic
    ELSE LET el == earlier_later(items)
         IN KeepOne([el[1] EXCEPT !.event_properties = el[2].event_properties])

\* Iterator::min_by on client_upload_time: of equal minima the first is kept.
RECURSIVE min_by(_, _, _)
min_by(items, i, best) ==
    IF i > Len(items) THEN best
    ELSE min_by(items, i + 1,
                IF OptLt(items[i].client_upload_time, best.client_upload_time)
                THEN items[i] ELSE best)

\* A resolver that keeps the first record whatever the upload times.
resolve_true_duplicate_first(items) ==
    IF items = << >> THEN ResolutionPanic ELSE KeepOne(items[1])

\* resolution of TrueDuplicate
resolve_true_duplicate(items) ==
    IF items = << >> THEN ResolutionPanic
    ELSE KeepOne(min_by(items, 2, items[1]))

\* A resolver that reports only the tag and the records of the type.
resolve_error_flat(d) == Error(DupeType(d.tag, d.items))

\* resolution of the types that are never resolved automatically
resolve_error(d) == Error(d)

\* DupeType::resolution
resolution(d) ==
    CASE d.tag = "PreOrderDropCompletedMistake" -> resolve_pre_order(d.items)
      [] d.tag \in {"DropTypeChange", "PropertyNameChange",
                    "PropertyDropPriceChange"} -> resolve_property_change(d.items)
      [] d.tag = "TrueDuplicate" -> resolve_true_duplicate(d.items)
      [] d.tag \in {"Unknown", "UnknownPropDiff", "TooMany",
                    "EventPropsIncompatible", "Multi"} -> resolve_error(d)
      [] OTHER -> ResolutionPanic

\* ------------------------------------------------------------------------
\* The analysis of one duplicate group (clean_duplicates_and_types: the body
\* of the loop over the duplicates)
\* ------------------------------------------------------------------------
PairIdle ==
    /\ eq = None /\ report = None /\ differences = None
    /\ comparison = None /\ cleaned = None

\* No tool has read an input directory.
ToolsIdle ==
    /\ input = << >>
    /\ insert_id_groups = << >> /\ dupe_analysis = << >> /\ final_events = None
    /\ analysis_files = << >>
    /\ non_uuid_events = << >> /\ included = << >>
    /\ progress_file = << >> /\ progress_at_start = << >>
    /\ completed_insert_ids = {}
    /\ user_events = << >> /\ sent = {} /\ uploaded = {} /\ run = 0
    /\ uploaded_events = {} /\ failed_uploads_count = 0

Init ==
    /\ events \in Groups
    /\ dupe = None
    /\ res = None
    /\ pc = "grouped"
    /\ PairIdle
    /\ ToolsIdle

\* let dupe_type = DupeType::from_events(duplicate_events);
Classify ==
    /\ pc = "grouped"
    /\ dupe' = Some(from_events(events))
    /\ pc' = "classified"
    /\ UNCHANGED <<events, res, pairVars, toolVars>>

\* let resolution = dupe_type.clone().resolution();
Resolve ==
    /\ pc = "classified"
    /\ res' = Some(resolution(Unwrap(dupe)))
    /\ pc' = "resolved"
    /\ UNCHANGED <<events, dupe, pairVars, toolVars>>

Next == Classify \/ Resolve

Spec == Init /\ [][Next]_vars

\* ------------------------------------------------------------------------
\* Properties
\* ------------------------------------------------------------------------
Classified == pc \in {"classified", "resolved"}

Resolved == pc = "resolved"

TheDupe == Unwrap(dupe)

TheRes == Unwrap(res)

\* The tags a classification carries: its own, or those of its sub-types.
Tags(d) ==
    IF d.tag = "Multi" THEN [i \in 1..Len(d.types) |-> d.types[i].tag]
    ELSE <<d.tag>>

IsPair(evs) ==
    /\ \E i \in 1..Len(evs) : evs[i].event_type = Some(Submitted)
    /\ \E i \in 1..Len(evs) : evs[i].event_type = Some(Completed)

\* The key shared by the records of the group.
GroupKey == Unwrap(events[1].insert_id)

\* Section 3 of the specification: equal in every field but the volatile ones.
VolatileFields ==
    {"client_upload_time", "uuid", "processed_time", "server_received_time",
     "user_properties"}

EqualButVolatile(a, b) ==
    \A f \in (DOMAIN a) \ VolatileFields : a[f] = b[f]

ErrorTags ==
    {"Unknown", "UnknownPropDiff", "TooMany", "EventPropsIncompatible", "Multi"}

\* C1: a group classified Unknown, UnknownPropDiff, TooMany,
\* EventPropsIncompatible or Multi resolves to Error carrying exactly that
\* classification (tag, records and sub-types), and keeps no record.
C1_ErrorCarriesDupeType ==
    (Resolved /\ TheDupe.tag \in ErrorTags) =>
        /\ TheRes.kind = "Error"
        /\ TheRes.error = dupe
        /\ TheRes.kept = << >>

C1_Witness ==
    /\ Resolved
    /\ TheDupe.tag = "Multi"
    /\ TheRes.kind = "Error"
    /\ TheRes.error = dupe

\* C2: a group of more than two records is classified TooMany, carrying the
\* group and no sub-type of any other rule, and resolves to Error(TooMany).
C2_TooManyShortCircuit ==
    (Len(events) > 2) =>
        /\ Classified =>
              TheDupe = [tag |-> "TooMany", items |-> events, types |-> << >>]
        /\ Resolved => (TheRes.kind = "Error" /\ TheRes.error = dupe)

C2_Witness ==
    /\ Resolved
    /\ Len(events) = 3
    /\ IsPair(events)
    /\ TheDupe.tag = "TooMany"
    /\ TheRes.kind = "Error"

C4_TrueDuplicateKeepsEarliest ==
    (Resolved /\ TheDupe.tag = "TrueDuplicate") =>
        /\ TheRes.kind = "KeepOne"
        /\ \E i \in 1..Len(events) :
              /\ TheRes.kept = <<events[i]>>
              /\ \A j \in 1..Len(events) :
                    ~OptLt(events[j].client_upload_time,
                           events[i].client_upload_time)
              /\ \A j \in 1..(i - 1) :
                    OptLt(events[i].client_upload_time,
                          events[j].client_upload_time)

C4_Witness ==
    /\ Resolved
    /\ TheDupe.tag = "TrueDuplicate"
    /\ events[1].client_upload_time = Some(2)
    /\ events[2].client_upload_time = Some(1)
    /\ events[1].uuid # events[2].uuid
    /\ TheRes.kept = <<events[2]>>

\* C5: records A and B under a non-UUID key, both with event_properties,
\* "Property" different, "Drop Type" and "Price per Share" equal, not a
\* Submitted/Completed pair, A uploaded before B: the group is classified
\* PropertyNameChange and resolves to KeepOne of A carrying B's
\* event_properties, whichever of the two is first in the input.
C5_Case(a, b) ==
    /\ Len(events) = 2
    /\ ~IsUuid(GroupKey)
    /\ ~IsPair(events)
    /\ IsSome(a.event_properties) /\ IsSome(b.event_properties)
    /\ Get(Unwrap(a.event_properties), "Property")
         # Get(Unwrap(b.event_properties), "Property")
    /\ Get(Unwrap(a.event_properties), "Drop Type")
         = Get(Unwrap(b.event_properties), "Drop Type")
    /\ Get(Unwrap(a.event_properties), "Price per Share")
         = Get(Unwrap(b.event_properties), "Price per Share")
    /\ OptLt(a.client_upload_time, b.client_upload_time)

C5_PropertyNameChangeMerge ==
    \A i, j \in 1..2 :
        (Len(events) = 2 /\ i # j /\ C5_Case(events[i], events[j])) =>
            /\ Classified => Tags(TheDupe) = <<"PropertyNameChange">>
            /\ Resolved =>
                  /\ TheRes.kind = "KeepOne"
                  /\ TheRes.kept =
                       <<[events[i] EXCEPT
                            !.event_properties = events[j].event_properties]>>

C5_Witness ==
    /\ Resolved
    /\ C5_Case(events[2], events[1])
    /\ events[1].user_id # events[2].user_id
    /\ TheDupe.tag = "PropertyNameChange"
    /\ TheRes.kept =
         <<[events[2] EXCEPT !.event_properties = events[1].event_properties]>>

\* C6: two records under a non-UUID key whose event_properties differ only
\* in that one stores a value under "Property" and the other the same value
\* under "PropertyName" are not classified PropertyNameChange, alone or among
\* the sub-types of a Multi.
C6_Case(a, b) ==
    /\ ~IsUuid(GroupKey)
    /\ IsSome(a.event_properties) /\ IsSome(b.event_properties)
    /\ LET pa == Unwrap(a.event_properties)
           pb == Unwrap(b.event_properties)
       IN /\ "Property" \in DOMAIN pa /\ "PropertyName" \notin DOMAIN pa
          /\ "PropertyName" \in DOMAIN pb /\ "Property" \notin DOMAIN pb
          /\ pa["Property"] = pb["PropertyName"]
          /\ (DOMAIN pa) \ {"Property"} = (DOMAIN pb) \ {"PropertyName"}
          /\ \A k \in (DOMAIN pa) \ {"Property"} : pa[k] = pb[k]

C6_KeyRenameIsNotNameChange ==
    \A i, j \in 1..2 :
        (Classified /\ Len(events) = 2 /\ i # j
            /\ C6_Case(events[i], events[j])) =>
            \A n \in 1..Len(Tags(TheDupe)) :
                Tags(TheDupe)[n] # "PropertyNameChange"

\* C7: a Submitted record and a Completed record with equal event_properties,
\* in either input order, are classified exactly PreOrderDropCompletedMistake
\* and resolve to KeepMany of the submitted record unchanged followed by the
\* completed record changed only in its insert_id, the key with "Submitted"
\* replaced by "Completed".
C7_Case(sub, com) ==
    /\ sub.event_type = Some(Submitted)
    /\ com.event_type = Some(Completed)
    /\ sub.event_properties = com.event_properties

C7_PreOrderKeepsBoth ==
    \A i, j \in 1..2 :
        (Len(events) = 2 /\ i # j /\ C7_Case(events[i], events[j])) =>
            /\ Classified =>
                  Tags(TheDupe) = <<"PreOrderDropCompletedMistake">>
            /\ Resolved =>
                  /\ TheRes.kind = "KeepMany"
                  /\ TheRes.kept =
                       <<events[i],
                         [events[j] EXCEPT
                            !.insert_id =
                               Some(Replace(GroupKey, "Submitted",
                                            "Completed"))]>>

C7_Witness ==
    /\ Resolved
    /\ Len(events) = 2
    /\ C7_Case(events[2], events[1])
    /\ GroupKey = <<"Submitted", "X", "Submitted">>
    /\ TheRes.kind = "KeepMany"
    /\ TheRes.kept[1] = events[2]
    /\ TheRes.kept[2].insert_id = Some(<<"Completed", "X", "Completed">>)

\* C8: in the KeepMany resolution of a PreOrderDropCompletedMistake group the
\* completed record's rewritten insert_id differs from the submitted
\* record's insert_id.
C8_RewrittenKeyDiffers ==
    (Resolved /\ TheDupe.tag = "PreOrderDropCompletedMistake") =>
        /\ Len(TheRes.kept) = 2
        /\ TheRes.kept[1].insert_id # TheRes.kept[2].insert_id

\* C9: a two-record group in which exactly one record has event_properties,
\* and which is not a Submitted/Completed pair, is classified
\* EventPropsIncompatible.
C9_OneSidedPropsIncompatible ==
    (/\ Classified
     /\ Len(events) = 2
     /\ ~IsPair(events)
     /\ IsSome(events[1].event_properties)
          # IsSome(events[2].event_properties)) =>
        TheDupe.tag = "EventPropsIncompatible"

\* C10: for two records under a non-UUID key with two present, unequal
\* event_properties, the property sub-types that fire are exactly those whose
\* property differs; the classification is the fired type itself when one
\* rule fires and a Multi of the fired types in rule order when several do;
\* no Multi holds another Multi or fewer than two sub-types.
PropertyTags ==
    {"PropertyNameChange", "DropTypeChange", "PropertyDropPriceChange"}

Differs(key) ==
    Get(Unwrap(events[1].event_properties), key)
        # Get(Unwrap(events[2].event_properties), key)

\* The rules expected to fire, in rule order.
C10_Fired ==
    LET props ==
            (IF Differs("Property") THEN <<"PropertyNameChange">> ELSE << >>)
            \o (IF Differs("Drop Type") THEN <<"DropTypeChange">> ELSE << >>)
            \o (IF Differs("Price per Share")
                THEN <<"PropertyDropPriceChange">> ELSE << >>)
        pair == IF IsPair(events)
                THEN <<"PreOrderDropCompletedMistake">> ELSE << >>
    IN IF pair \o props = << >> THEN <<"UnknownPropDiff">> ELSE pair \o props

C10_Case ==
    /\ Len(events) = 2
    /\ ~IsUuid(GroupKey)
    /\ IsSome(events[1].event_properties)
    /\ IsSome(events[2].event_properties)
    /\ events[1].event_properties # events[2].event_properties

MultiWellFormed(d) ==
    d.tag = "Multi" =>
        /\ Len(d.types) >= 2
        /\ \A n \in 1..Len(d.types) :
              d.types[n].tag # "Multi" /\ d.types[n].types = << >>

C10_PropertyRulesCompose ==
    Classified =>
        /\ MultiWellFormed(TheDupe)
        /\ C10_Case =>
              /\ Len(C10_Fired) = 1 => TheDupe.tag = C10_Fired[1]
              /\ Len(C10_Fired) > 1 =>
                    (TheDupe.tag = "Multi" /\ Tags(TheDupe) = C10_Fired)
              /\ TheDupe.items = events

C10_Witness ==
    /\ Classified
    /\ C10_Case
    /\ IsPair(events)
    /\ TheDupe.tag = "Multi"
    /\ Tags(TheDupe) =
         <<"PreOrderDropCompletedMistake", "PropertyNameChange",
           "DropTypeChange", "PropertyDropPriceChange">>

\* C11: a two-record group under a UUID key is never classified
\* PropertyNameChange, DropTypeChange or PropertyDropPriceChange, alone or
\* among the sub-types of a Multi, and resolves to Error whenever the two
\* event_properties differ.
C11_Case ==
    /\ Len(events) = 2
    /\ IsSome(events[1].insert_id)
    /\ GroupKey = <<UuidText>>

C11_UuidKeyNotAutoClassified ==
    C11_Case =>
        /\ Classified =>
              \A n \in 1..Len(Tags(TheDupe)) : Tags(TheDupe)[n] \notin PropertyTags
        /\ (Resolved /\ events[1].event_properties # events[2].event_properties)
              => (TheRes.kind = "Error" /\ TheRes.error = dupe)

C11_Witness ==
    /\ Resolved
    /\ C11_Case
    /\ IsSome(events[1].event_properties)
    /\ IsSome(events[2].event_properties)
    /\ Differs("Property")
    /\ ~IsPair(events)
    /\ Tags(TheDupe) = <<"Unknown", "UnknownPropDiff">>
    /\ TheRes.kind = "Error"

\* ------------------------------------------------------------------------
\* Two events side by side: PartialEq, compare_export_events and the diffs
\* of dupe_cleaner.rs
\* ------------------------------------------------------------------------
\* An event with the fields read by the comparisons.
BaseEvent ==
    [insert_id |-> Some(<<"X">>), event_type |-> Some("Other"),
     user_id |-> Some("u1"), device_id |-> Some("d1"), event_time |-> Some(1),
     event_properties |-> Some([k \in {"Property"} |-> "a"]),
     user_properties |-> None, groups |-> None, group_properties |-> None,
     app |-> Some(1), client_upload_time |-> Some(1), processed_time |-> None,
     server_received_time |-> Some(1), uuid |-> Some("g1")]

\* Another value for every field.
AltEvent ==
    [insert_id |-> Some(<<"Y">>), event_type |-> Some("Other2"),
     user_id |-> Some("u2"), device_id |-> None, event_time |-> Some(2),
     event_properties |-> Some([k \in {"Property"} |-> "b"]),
     user_properties |-> Some([k \in {"plan"} |-> "a"]),
     groups |-> Some([k \in {"team"} |-> "a"]),
     group_properties |-> Some([k \in {"size"} |-> "a"]),
     app |-> Some(999), client_upload_time |-> Some(2),
     processed_time |-> Some("p2"), server_received_time |-> Some(2),
     uuid |-> Some("g2")]

\* BaseEvent with the fields of S taken from AltEvent.
Variant(S) ==
    [f \in DOMAIN BaseEvent |-> IF f \in S THEN AltEvent[f] ELSE BaseEvent[f]]

\* Pairs that differ in any set of fields.
EqPairs == {<<BaseEvent, Variant(S)>> : S \in SUBSET (DOMAIN BaseEvent)}

\* event_properties for the diffs: absent, empty, and maps over three keys.
DiffProps ==
    EventProps
    \cup {Some([k \in {} |-> "a"]), Some([k \in {"x"} |-> "a"]),
          Some([k \in {"x", "Property"} |-> "b"])}

\* Pairs that differ in event_properties and possibly in uuid.
DiffPairs ==
    {<<[BaseEvent EXCEPT !.event_properties = p1],
       [BaseEvent EXCEPT !.event_properties = p2, !.uuid = g]>> :
        p1 \in DiffProps, p2 \in DiffProps, g \in Uuids}

\* serde names of the fields.
JsonName(f) == IF f = "insert_id" THEN "$insert_id" ELSE f

TimestampFields ==
    {"client_event_time", "client_upload_time", "event_time",
     "server_received_time", "server_upload_time"}

MapFields ==
    {"event_properties", "user_properties", "groups", "group_properties",
     "data", "plan"}

JNull == <<"null">>

\* The JSON value of one field: null for None, the formatted text of a
\* timestamp, a number, an object or a string.
FieldJson(f, v) ==
    IF v = None THEN JNull
    ELSE IF f \in TimestampFields THEN <<"string", <<"time", Unwrap(v)>>>>
    ELSE IF f \in MapFields THEN <<"object", Unwrap(v)>>
    ELSE IF f \in {"app", "event_id", "session_id", "amplitude_id"}
    THEN <<"number", Unwrap(v)>>
    ELSE <<"string", Unwrap(v)>>

\* serde_json::to_value(event): every field is written, under its serde name.
to_value(e) ==
    [k \in {JsonName(f) : f \in DOMAIN e} |->
        LET f == CHOOSE g \in DOMAIN e : JsonName(g) = k
        IN FieldJson(f, e[f])]

\* json!(Option<&Value>): null for a missing value.
OptJson(o) == IF o = None THEN JNull ELSE <<"value", Unwrap(o)>>

\* The entries of a diff: the keys of all_keys whose two values differ.
diff_entries(all_keys, obj1, obj2) ==
    [k \in {j \in all_keys : Get(obj1, j) # Get(obj2, j)} |->
        [event1_value |-> OptJson(Get(obj1, k)),
         event2_value |-> OptJson(Get(obj2, k))]]

\* find_event_differences
find_event_differences(event1, event2) ==
    LET obj1 == to_value(event1)
        obj2 == to_value(event2)
    IN diff_entries((DOMAIN obj1) \cup (DOMAIN obj2), obj1, obj2)

\* A properties diff that walks the keys of the first map only.
find_event_properties_differences_first_keys(event1, event2) ==
    LET props1 == event1.event_properties
        props2 == event2.event_properties
    IN IF props1 = None /\ props2 = None THEN << >>
       ELSE IF props1 = None
       THEN [k \in DOMAIN Unwrap(props2) |->
               [event1_value |-> JNull,
                event2_value |-> OptJson(Get(Unwrap(props2), k))]]
       ELSE IF props2 = None
       THEN [k \in DOMAIN Unwrap(props1) |->
               [event1_value |-> OptJson(Get(Unwrap(props1), k)),
                event2_value |-> JNull]]
       ELSE diff_entries(DOMAIN Unwrap(props1), Unwrap(props1), Unwrap(props2))

\* A properties diff that reports nothing when one side has no properties.
find_event_properties_differences_none_empty(event1, event2) ==
    LET props1 == event1.event_properties
        props2 == event2.event_properties
    IN IF props1 = None \/ props2 = None THEN << >>
       ELSE diff_entries((DOMAIN Unwrap(props1)) \cup (DOMAIN Unwrap(props2)),
                         Unwrap(props1), Unwrap(props2))

\* find_event_properties_differences
find_event_properties_differences(event1, event2) ==
    LET props1 == event1.event_properties
        props2 == event2.event_properties
    IN IF props1 = None /\ props2 = None THEN << >>
       ELSE IF props1 = None \/ props2 = None
       THEN LET non_none_props ==
                    IF IsSome(props1) THEN Unwrap(props1) ELSE Unwrap(props2)
            IN [k \in DOMAIN non_none_props |->
                  [event1_value |->
                      IF props1 = None THEN JNull
                      ELSE OptJson(Get(Unwrap(props1), k)),
                   event2_value |->
                      IF props2 = None THEN JNull
                      ELSE OptJson(Get(Unwrap(props2), k))]]
       ELSE diff_entries((DOMAIN Unwrap(props1)) \cup (DOMAIN Unwrap(props2)),
                         Unwrap(props1), Unwrap(props2))

\* events_are_identical of compare.rs
events_are_identical(event1, event2) ==
    /\ event1.insert_id = event2.insert_id
    /\ event1.event_type = event2.event_type
    /\ event1.user_id = event2.user_id
    /\ event1.device_id = event2.device_id
    /\ event1.event_time = event2.event_time
    /\ event1.event_properties = event2.event_properties
    /\ event1.user_properties = event2.user_properties
    /\ event1.groups = event2.groups
    /\ event1.group_properties = event2.group_properties

\* The map keyed by insert_id built from the events of one export: events
\* without insert_id are left out, a later event replaces an earlier one.
RECURSIVE build_map(_, _, _)
build_map(evs, i, m) ==
    IF i > Len(evs) THEN m
    ELSE IF evs[i].insert_id = None THEN build_map(evs, i + 1, m)
    ELSE LET id == Unwrap(evs[i].insert_id)
         IN build_map(evs, i + 1,
                      [k \in (DOMAIN m) \cup {id} |->
                          IF k = id THEN evs[i] ELSE m[k]])

\* compare_export_events: the four lists of the summary (their order is the
\* iteration order of a HashMap, so they are sets here).
compare_export_events(original_events, comparison_events) ==
    LET original_map == build_map(original_events, 1, << >>)
        comparison_map == build_map(comparison_events, 1, << >>)
        both == (DOMAIN original_map) \cap (DOMAIN comparison_map)
    IN [identical_events |->
            {k \in both : events_are_identical(original_map[k],
                                               comparison_map[k])},
        different_events |->
            {k \in both : ~events_are_identical(original_map[k],
                                                comparison_map[k])},
        only_in_original |-> (DOMAIN original_map) \ (DOMAIN comparison_map),
        only_in_comparison |-> (DOMAIN comparison_map) \ (DOMAIN original_map)]

InitPair ==
    /\ events \in EqPairs \cup DiffPairs
    /\ dupe = None
    /\ res = None
    /\ pc = "pair"
    /\ PairIdle
    /\ ToolsIdle

\* event1 == event2
PartialEqStep ==
    /\ pc = "pair"
    /\ eq = None
    /\ eq' = Some(EventEq(events[1], events[2]))
    /\ UNCHANGED <<groupVars, report, differences, comparison, cleaned,
                   toolVars>>

\* compare_export_events on two exports of one event each
CompareExports ==
    /\ pc = "pair"
    /\ report = None
    /\ report' = Some(compare_export_events(<<events[1]>>, <<events[2]>>))
    /\ UNCHANGED <<groupVars, eq, differences, comparison, cleaned,
                   toolVars>>

\* find_event_differences and find_event_properties_differences
FindDifferences ==
    /\ pc = "pair"
    /\ differences = None
    /\ differences' =
         Some([event |-> find_event_differences(events[1], events[2]),
               event_properties |->
                   find_event_properties_differences(events[1], events[2])])
    /\ UNCHANGED <<groupVars, eq, report, comparison, cleaned, toolVars>>

NextPair == PartialEqStep \/ CompareExports \/ FindDifferences

SpecPair == InitPair /\ [][NextPair]_vars

\* The fields in which the two events differ.
DifferingFields ==
    {f \in DOMAIN events[1] : events[1][f] # events[2][f]}

\* C12: two events that differ only in app, client_upload_time,
\* processed_time, server_received_time, uuid and user_properties compare
\* equal; two that differ in event_type, insert_id or user_id compare unequal.
C12_IgnoredAndComparedFields ==
    IsSome(eq) =>
        /\ DifferingFields \subseteq
              {"app", "client_upload_time", "processed_time",
               "server_received_time", "uuid", "user_properties"}
              => Unwrap(eq)
        /\ DifferingFields \cap {"event_type", "insert_id", "user_id"} # {}
              => ~Unwrap(eq)

\* C16: a key present in both exports is listed as identical exactly when
\* the two records are equal in every field but the volatile ones, which is
\* the equality of the classifier, and as different otherwise.
C16_IdenticalIffEqual ==
    (/\ IsSome(report)
     /\ IsSome(events[1].insert_id)
     /\ events[1].insert_id = events[2].insert_id) =>
        LET k == Unwrap(events[1].insert_id)
            r == Unwrap(report)
        IN /\ k \in r.identical_events
                <=> EqualButVolatile(events[1], events[2])
           /\ k \in r.identical_events <=> EventEq(events[1], events[2])
           /\ k \in r.different_events
                <=> ~EqualButVolatile(events[1], events[2])

\* C17: the whole-record diff of (a, b) and of (b, a) report the same set of
\* changed keys, and so do the two event_properties diffs.
C17_DiffKeysSymmetric ==
    IsSome(differences) =>
        /\ DOMAIN Unwrap(differences).event
             = DOMAIN find_event_differences(events[2], events[1])
        /\ DOMAIN Unwrap(differences).event_properties
             = DOMAIN find_event_properties_differences(events[2], events[1])

C17_Witness ==
    /\ IsSome(differences)
    /\ IsSome(events[1].event_properties)
    /\ IsSome(events[2].event_properties)
    /\ DOMAIN Unwrap(events[1].event_properties) = {"Property"}
    /\ DOMAIN Unwrap(events[2].event_properties) = {"x"}
    /\ DOMAIN Unwrap(differences).event_properties = {"Property", "x"}
    /\ DOMAIN Unwrap(differences).event = {"event_properties", "uuid"}

\* C18: the event_properties diff reports exactly the keys of either map
\* whose values differ, a key missing from a map (or a map that is absent)
\* counting as no value: every key of the present map when one map is absent,
\* nothing when both are.
PropKeys(e) ==
    IF e.event_properties = None THEN {}
    ELSE DOMAIN Unwrap(e.event_properties)

PropValue(e, k) ==
    IF e.event_properties = None THEN None
    ELSE Get(Unwrap(e.event_properties), k)

C18_PropertiesDiffKeys ==
    IsSome(differences) =>
        DOMAIN Unwrap(differences).event_properties
            = {k \in PropKeys(events[1]) \cup PropKeys(events[2]) :
                  PropValue(events[1], k) # PropValue(events[2], k)}

C18_Witness ==
    /\ IsSome(differences)
    /\ events[1].event_properties = None
    /\ events[2].event_properties = Some([k \in {"x"} |-> "a"])
    /\ DOMAIN Unwrap(differences).event_properties = {"x"}
    /\ Unwrap(differences).event_properties["x"]
         = [event1_value |-> JNull, event2_value |-> <<"value", "a">>]

\* ------------------------------------------------------------------------
\* The input directory: the exported events in file order
\* (parser::parse_export_events_from_directory)
\* ------------------------------------------------------------------------
MaxInput == 3

\* A parsed line of an export: the insert_id may be absent.
Exported(id, ty, t, u, et) ==
    [insert_id |-> id, event_type |-> ty, client_upload_time |-> t,
     event_properties |-> None, user_id |-> u, uuid |-> Some("g1"),
     event_time |-> et, device_id |-> None]

\* Vec<ExportEvent> of at most MaxInput records drawn from S.
Inputs(S) == UNION {[1..n -> S] : n \in 1..MaxInput}

\* ------------------------------------------------------------------------
\* clean_duplicates_and_types in OutputMode::Full
\* ------------------------------------------------------------------------
CleanRecords ==
    {Exported(id, ty, t, Some("u1"), Some(1)) :
        id \in {None, Some(<<"X">>), Some(<<"Submitted", "X">>),
                Some(<<"Completed", "X">>)},
        ty \in {Some(Submitted), Some(Completed)},
        t \in {Some(1), Some(2)}}

\* A grouping that puts each record in front of its group.
entry_push_front(groups, k, e) ==
    IF k \in DOMAIN groups THEN [groups EXCEPT ![k] = <<e>> \o @]
    ELSE [x \in (DOMAIN groups) \cup {k} |->
            IF x = k THEN <<e>> ELSE groups[x]]

\* HashMap::entry(k).or_default().push(e)
entry_push(groups, k, e) ==
    IF k \in DOMAIN groups THEN [groups EXCEPT ![k] = Append(@, e)]
    ELSE [x \in (DOMAIN groups) \cup {k} |->
            IF x = k THEN <<e>> ELSE groups[x]]

\* A grouping that files the records without insert_id under the empty
\* insert_id.
RECURSIVE group_events_or_default(_, _, _)
group_events_or_default(evs, i, groups) ==
    IF i > Len(evs) THEN groups
    ELSE group_events_or_default(evs, i + 1,
            entry_push(groups,
                       IF evs[i].insert_id = None THEN << >>
                       ELSE Unwrap(evs[i].insert_id),
                       evs[i]))

\* The loop that groups the events by insert_id: a record without one is
\* passed over.
RECURSIVE group_events(_, _, _)
group_events(evs, i, groups) ==
    IF i > Len(evs) THEN groups
    ELSE group_events(evs, i + 1,
            IF evs[i].insert_id = None THEN groups
            ELSE entry_push(groups, Unwrap(evs[i].insert_id), evs[i]))

\* A filter that also lets the groups of one record through.
is_duplicate_nonempty(group) == Len(group) > 0

\* .filter(|(_, events)| events.len() > 1)
is_duplicate(group) == Len(group) > 1

\* The insert_ids with more than one event.
duplicates_of(groups) ==
    [k \in {x \in DOMAIN groups : is_duplicate(groups[x])} |-> groups[k]]

\* DupeAnalysis
DupeAnalysis(insert_id, duplicate_events) ==
    LET dupe_type == from_events(duplicate_events)
    IN [insert_id |-> insert_id,
        duplicate_count |-> Len(duplicate_events),
        dupe_type |-> dupe_type,
        resolution |-> resolution(dupe_type),
        events |-> duplicate_events]

\* The loop over the duplicates.
analyze(dups) == [k \in DOMAIN dups |-> DupeAnalysis(k, dups[k])]

Panicked(analysis) ==
    \E k \in DOMAIN analysis :
        \/ analysis[k].dupe_type = Panic
        \/ analysis[k].resolution = ResolutionPanic

\* The orders in which a HashMap may be iterated.
IterOrders(S) ==
    {f \in [1..Cardinality(S) -> S] : \A i, j \in 1..Cardinality(S) :
                                          f[i] = f[j] => i = j}

\* resolved_events: the kept records of each analysis, in iteration order.
RECURSIVE resolved_events(_, _, _)
resolved_events(analysis, order, i) ==
    IF i > Len(order) THEN << >>
    ELSE analysis[order[i]].resolution.kept
         \o resolved_events(analysis, order, i + 1)

\* resolved_map: the resolved records by insert_id, a later one replacing an
\* earlier one under the same insert_id.
RECURSIVE resolved_map(_, _, _)
resolved_map(resolved, i, m) ==
    IF i > Len(resolved) THEN m
    ELSE resolved_map(resolved, i + 1,
            IF resolved[i].insert_id = None THEN m
            ELSE LET k == Unwrap(resolved[i].insert_id)
                 IN [x \in (DOMAIN m) \cup {k} |->
                        IF x = k THEN resolved[i] ELSE m[x]])

\* final_events: each input record, replaced by the resolved record of its
\* insert_id if there is one.
final_events_of(all_events, m) ==
    [i \in 1..Len(all_events) |->
        IF /\ all_events[i].insert_id # None
           /\ Unwrap(all_events[i].insert_id) \in DOMAIN m
        THEN m[Unwrap(all_events[i].insert_id)]
        ELSE all_events[i]]

\* char::is_alphanumeric, '-' and '_': the text that sanitize_filename
\* keeps.  Of the segments of an insert_id, the blank and the slash are not.
keeps_char(c) == c \notin {" ", "/"}

\* sanitize_filename: every other character becomes '_'.
sanitize_filename(filename) ==
    [i \in 1..Len(filename) |->
        IF keeps_char(filename[i]) THEN filename[i] ELSE "_"]

\* type_dir.join(format!("dupe_analysis_{}.json", filename))
file_path(analysis) ==
    <<analysis.dupe_type.tag, "dupe_analysis_",
      sanitize_filename(analysis.insert_id), ".json">>

\* File::create and to_writer_pretty for each analysis, in iteration order:
\* a file that exists is truncated.
RECURSIVE write_analysis_files(_, _, _, _)
write_analysis_files(analysis, order, i, files) ==
    IF i > Len(order) THEN files
    ELSE LET a == analysis[order[i]]
         IN write_analysis_files(analysis, order, i + 1,
               [f \in (DOMAIN files) \cup {file_path(a)} |->
                   IF f = file_path(a) THEN a ELSE files[f]])

InitClean ==
    /\ events = << >> /\ dupe = None /\ res = None
    /\ PairIdle
    /\ input \in Inputs(CleanRecords)
    /\ pc = "parsed"
    /\ insert_id_groups = << >> /\ dupe_analysis = << >> /\ final_events = None
    /\ analysis_files = << >>
    /\ non_uuid_events = << >> /\ included = << >>
    /\ progress_file = << >> /\ progress_at_start = << >>
    /\ completed_insert_ids = {}
    /\ user_events = << >> /\ sent = {} /\ uploaded = {} /\ run = 0
    /\ uploaded_events = {} /\ failed_uploads_count = 0

\* for event in events { if let Some(insert_id) = &event.insert_id { ... } }
GroupEvents ==
    /\ pc = "parsed"
    /\ insert_id_groups' = group_events(input, 1, << >>)
    /\ pc' = "grouped"
    /\ UNCHANGED <<events, dupe, res, pairVars, input, dupe_analysis,
                   analysis_files, final_events, filterVars, uploadVars>>

\* The duplicates are analysed; without duplicates the run ends here.
Analyze ==
    /\ pc = "grouped"
    /\ LET dups == duplicates_of(insert_id_groups)
           analysis == analyze(dups)
       IN /\ dupe_analysis' = analysis
          /\ pc' = IF DOMAIN dups = {} THEN "returned"
                   ELSE IF Panicked(analysis) THEN "panicked"
                   ELSE "analyzed"
    /\ UNCHANGED <<events, dupe, res, pairVars, input, insert_id_groups,
                   analysis_files, final_events, filterVars, uploadVars>>

\* One dupe_analysis_{insert_id}.json per duplicate group, in the directory
\* of its DupeType.
WriteAnalysisFiles ==
    /\ pc = "analyzed"
    /\ \E order \in IterOrders(DOMAIN dupe_analysis) :
          analysis_files' = write_analysis_files(dupe_analysis, order, 1, << >>)
    /\ pc' = "written"
    /\ UNCHANGED <<events, dupe, res, pairVars, input, insert_id_groups,
                   dupe_analysis, final_events, filterVars, uploadVars>>

\* OutputMode::Full: full_export_events.json
FullExport ==
    /\ pc = "written"
    /\ \E order \in IterOrders(DOMAIN dupe_analysis) :
          LET resolved == resolved_events(dupe_analysis, order, 1)
          IN final_events'
               = Some(final_events_of(input, resolved_map(resolved, 1, << >>)))
    /\ pc' = "exported"
    /\ UNCHANGED <<events, dupe, res, pairVars, input, insert_id_groups,
                   dupe_analysis, analysis_files, filterVars, uploadVars>>

NextClean == GroupEvents \/ Analyze \/ WriteAnalysisFiles \/ FullExport

SpecClean == InitClean /\ [][NextClean]_vars

Grouped ==
    pc \in {"grouped", "returned", "panicked", "analyzed", "written",
            "exported"}

Analyzed == pc \in {"returned", "panicked", "analyzed", "written", "exported"}

\* The input records that carry insert_id k, in input order.
WithKey(k) ==
    LET has_key(e) == e.insert_id = Some(k)
    IN SelectSeq(input, has_key)

\* C13: grouping maps each idempotency key of the input to the list of all
\* input records carrying that key, in input order; so every record with a
\* key is in exactly one group, and in no group of another key.
C13_GroupingPreservesOrder ==
    Grouped =>
        /\ DOMAIN insert_id_groups
             = {Unwrap(input[i].insert_id) :
                   i \in {j \in 1..Len(input) : input[j].insert_id # None}}
        /\ \A k \in DOMAIN insert_id_groups : insert_id_groups[k] = WithKey(k)

C13_Witness ==
    /\ Grouped
    /\ Len(input) = 3
    /\ input[1].insert_id = Some(<<"X">>)
    /\ input[2].insert_id = Some(<<"Submitted", "X">>)
    /\ input[3].insert_id = Some(<<"X">>)
    /\ input[1] # input[3]
    /\ insert_id_groups[<<"X">>] = <<input[1], input[3]>>
    /\ insert_id_groups[<<"Submitted", "X">>] = <<input[2]>>

\* C15: the classifier is only invoked on groups of at least two records,
\* and on a group of exactly one record it returns no DupeType: it aborts.
C15_ClassifierNeedsTwo ==
    /\ Analyzed =>
          \A k \in DOMAIN dupe_analysis :
              /\ Len(dupe_analysis[k].events) >= 2
              /\ dupe_analysis[k].events = insert_id_groups[k]
    /\ Grouped =>
          \A k \in DOMAIN insert_id_groups :
              Len(insert_id_groups[k]) = 1 =>
                  from_events(insert_id_groups[k]) = Panic

C15_Witness ==
    /\ pc = "analyzed"
    /\ DOMAIN insert_id_groups = {<<"X">>, <<"Submitted", "X">>}
    /\ DOMAIN dupe_analysis = {<<"X">>}
    /\ Len(insert_id_groups[<<"Submitted", "X">>]) = 1
    /\ from_events(insert_id_groups[<<"Submitted", "X">>]) = Panic

\* ------------------------------------------------------------------------
\* UUIDDeduplicationFilter (filter_events_with_filter: one should_include
\* call per event of the input, in input order)
\* ------------------------------------------------------------------------
FilterRecords ==
    {Exported(id, Some("Other"), t, Some("u1"), Some(1)) :
        id \in {None, Some(<< >>), Some(<<"X">>), Some(<<"Y">>),
                Some(<<UuidText>>)},
        t \in {Some(1), Some(2)}}

\* Some(id) if !id.is_empty()
HasInsertId(event) ==
    event.insert_id # None /\ Unwrap(event.insert_id) # << >>

\* A filter that keeps only the first event of every insert_id, UUID or not.
should_include_track_all(tracked, event) ==
    IF ~HasInsertId(event) THEN [result |-> FALSE, tracked |-> tracked]
    ELSE LET insert_id == Unwrap(event.insert_id)
         IN [result |-> insert_id \notin DOMAIN tracked,
             tracked |-> entry_push(tracked, insert_id, event)]

\* UUIDDeduplicationFilter::should_include: the answer and the new value of
\* non_uuid_events.
should_include(tracked, event) ==
    IF ~HasInsertId(event) THEN [result |-> FALSE, tracked |-> tracked]
    ELSE LET insert_id == Unwrap(event.insert_id)
         IN IF IsUuid(insert_id) THEN [result |-> TRUE, tracked |-> tracked]
            ELSE [result |-> insert_id \notin DOMAIN tracked,
                  tracked |-> entry_push(tracked, insert_id, event)]

InitFilter ==
    /\ events = << >> /\ dupe = None /\ res = None
    /\ PairIdle
    /\ input \in Inputs(FilterRecords)
    /\ pc = "filter"
    /\ insert_id_groups = << >> /\ dupe_analysis = << >> /\ final_events = None
    /\ analysis_files = << >>
    /\ non_uuid_events = << >> /\ included = << >>
    /\ progress_file = << >> /\ progress_at_start = << >>
    /\ completed_insert_ids = {}
    /\ user_events = << >> /\ sent = {} /\ uploaded = {} /\ run = 0
    /\ uploaded_events = {} /\ failed_uploads_count = 0

\* .partition(|event| filter.should_include(event)): the next call
ShouldInclude ==
    /\ pc = "filter"
    /\ Len(included) < Len(input)
    /\ LET r == should_include(non_uuid_events, input[Len(included) + 1])
       IN /\ included' = Append(included, r.result)
          /\ non_uuid_events' = r.tracked
    /\ UNCHANGED <<groupVars, pairVars, input, cleanVars, uploadVars>>

NextFilter == ShouldInclude

SpecFilter == InitFilter /\ [][NextFilter]_vars

\* C19: a should_include call returns true exactly when the insert_id of
\* its event is non-empty and either is a UUID or was passed in no earlier
\* call; so at most one event per non-UUID insert_id is included, and no
\* event with a missing or empty insert_id.
C19_FilterIncludes ==
    /\ \A i \in 1..Len(included) :
          included[i]
            <=> /\ input[i].insert_id # None
                /\ Unwrap(input[i].insert_id) # << >>
                /\ \/ IsUuid(Unwrap(input[i].insert_id))
                   \/ \A j \in 1..(i - 1) :
                         input[j].insert_id # input[i].insert_id
    /\ \A i, j \in 1..Len(included) :
          (/\ included[i] /\ included[j]
           /\ input[i].insert_id = input[j].insert_id
           /\ ~IsUuid(Unwrap(input[i].insert_id))) => i = j
    /\ \A i \in 1..Len(included) :
          input[i].insert_id \in {None, Some(<< >>)} => ~included[i]

C19_Witness ==
    /\ Len(input) = 3
    /\ input[1].insert_id = Some(<<"X">>)
    /\ input[2].insert_id = Some(<<UuidText>>)
    /\ input[3].insert_id = Some(<<"X">>)
    /\ included = <<TRUE, TRUE, FALSE>>
    /\ Len(non_uuid_events[<<"X">>]) = 2

\* ------------------------------------------------------------------------
\* The uploader (process_and_upload_events), run again and again on the same
\* input directory and project, so on the same progress file
\* ------------------------------------------------------------------------
MaxRuns == 2

user_batch_size == 65

\* An insert_id may end in white space: the parser keeps JSON strings as
\* they are.
UploadRecords ==
    {Exported(id, Some("Other"), Some(1), u, Some(1)) :
        id \in {None, Some(<<"X">>), Some(<<"X", " ">>), Some(<<"Y">>)},
        u \in {Some("u1"), Some("u2")}}
    \cup {Exported(Some(<<"Y">>), Some("Other"), Some(1), Some("u1"), Some(2)),
          Exported(Some(<<"X">>), Some("Other"), Some(1), Some("u1"), None)}

\* str::trim: white space is removed at both ends.
RECURSIVE trim(_)
trim(s) ==
    IF s = << >> THEN s
    ELSE IF Head(s) = " " THEN trim(Tail(s))
    ELSE IF s[Len(s)] = " " THEN trim(SubSeq(s, 1, Len(s) - 1))
    ELSE s

\* read_progress_file: the set of the trimmed, non-empty lines.
read_progress_file(lines) ==
    {trim(lines[i]) : i \in 1..Len(lines)} \ {<< >>}

\* write_progress_batch: one line per insert_id, appended.
write_progress_batch(lines, insert_ids) == lines \o insert_ids

Ok(v) == [ok |-> TRUE, value |-> v]

Err(e) == [ok |-> FALSE, value |-> e]

\* ExportEvent::to_batch_event
to_batch_event(e) ==
    IF e.event_time = None THEN Err("Missing event_time")
    ELSE IF e.user_id = None /\ e.device_id = None
    THEN Err("Either user_id or device_id is required")
    ELSE IF e.event_type = None THEN Err("Missing event_type")
    ELSE IF Unwrap(e.event_type) = "" THEN Err("Event type is empty")
    ELSE IF e.insert_id = None THEN Err("Missing insert_id")
    ELSE IF Unwrap(e.insert_id) = << >> THEN Err("Insert ID is empty")
    ELSE Ok([user_id |-> e.user_id, device_id |-> e.device_id,
             event_type |-> Unwrap(e.event_type),
             time |-> Unwrap(e.event_time),
             insert_id |-> e.insert_id])

\* The loop that drops the events already uploaded and those that do not
\* convert.
RECURSIVE events_to_upload(_, _, _)
events_to_upload(export_events, i, completed) ==
    IF i > Len(export_events) THEN << >>
    ELSE LET e == export_events[i]
             rest == events_to_upload(export_events, i + 1, completed)
         IN IF e.insert_id # None /\ Unwrap(e.insert_id) \in completed
            THEN rest
            ELSE IF to_batch_event(e).ok
            THEN <<to_batch_event(e).value>> \o rest
            ELSE rest

\* sort_by_key(|event| event.time): a stable sort.
RECURSIVE sort_by_time(_)
sort_by_time(evs) ==
    IF evs = << >> THEN evs
    ELSE LET least == CHOOSE i \in 1..Len(evs) :
                         \A j \in 1..Len(evs) :
                             \/ evs[i].time < evs[j].time
                             \/ evs[i].time = evs[j].time /\ i <= j
         IN <<evs[least]>>
            \o sort_by_time(SubSeq(evs, 1, least - 1)
                            \o SubSeq(evs, least + 1, Len(evs)))

\* "user:{uid}", else "device:{did}", else "unknown"
user_key(event) ==
    IF event.user_id # None THEN <<"user", Unwrap(event.user_id)>>
    ELSE IF event.device_id # None THEN <<"device", Unwrap(event.device_id)>>
    ELSE <<"unknown">>

\* The loop that groups the events to upload by user or device.
RECURSIVE group_by_user(_, _, _)
group_by_user(evs, i, groups) ==
    IF i > Len(evs) THEN groups
    ELSE group_by_user(evs, i + 1, entry_push(groups, user_key(evs[i]), evs[i]))

\* slice::chunks(user_batch_size)
RECURSIVE chunks(_)
chunks(list) ==
    IF Len(list) <= user_batch_size THEN <<list>>
    ELSE <<SubSeq(list, 1, user_batch_size)>>
         \o chunks(SubSeq(list, user_batch_size + 1, Len(list)))

\* The batches of a run, user by user in the iteration order of the map.
RECURSIVE batches(_, _, _)
batches(groups, order, i) ==
    IF i > Len(order) THEN << >>
    ELSE chunks(groups[order[i]]) \o batches(groups, order, i + 1)

\* filter_map(|event| event.insert_id.clone())
batch_insert_ids(chunk) ==
    LET has_id(event) == event.insert_id # None
        with_id == SelectSeq(chunk, has_id)
    IN [i \in 1..Len(with_id) |-> Unwrap(with_id[i].insert_id)]

InitUpload ==
    /\ events = << >> /\ dupe = None /\ res = None
    /\ PairIdle
    /\ input \in Inputs(UploadRecords)
    /\ pc = "upload"
    /\ insert_id_groups = << >> /\ dupe_analysis = << >> /\ final_events = None
    /\ analysis_files = << >>
    /\ non_uuid_events = << >> /\ included = << >>
    /\ progress_file = << >> /\ progress_at_start = << >>
    /\ completed_insert_ids = {}
    /\ user_events = << >> /\ sent = {} /\ uploaded = {} /\ run = 0
    /\ uploaded_events = {} /\ failed_uploads_count = 0

\* A run starts: the progress file is read, the events already uploaded and
\* those that do not convert are dropped, the rest is sorted and batched.
StartRun ==
    /\ pc = "upload"
    /\ run < MaxRuns
    /\ run' = run + 1
    /\ progress_at_start' = progress_file
    /\ LET completed == read_progress_file(progress_file)
           to_upload == sort_by_time(events_to_upload(input, 1, completed))
           groups == group_by_user(to_upload, 1, << >>)
       IN /\ completed_insert_ids' = completed
          /\ \E order \in IterOrders(DOMAIN groups) :
                user_events' = IF to_upload = << >> THEN << >>
                               ELSE batches(groups, order, 1)
          /\ pc' = IF to_upload = << >> THEN "upload" ELSE "uploading"
    /\ sent' = {}
    /\ failed_uploads_count' = 0
    /\ UNCHANGED <<events, dupe, res, pairVars, input, cleanVars, filterVars,
                   progress_file, uploaded, uploaded_events>>

\* The next batch is sent; its insert_ids are appended to the progress file
\* if, and only if, the API accepted it.
SendBatch ==
    /\ pc = "uploading"
    /\ LET chunk == Head(user_events)
           ids == batch_insert_ids(chunk)
       IN /\ sent' = sent \cup {ids[i] : i \in 1..Len(ids)}
          /\ \E ok \in BOOLEAN :
                IF ok
                THEN /\ progress_file' = write_progress_batch(progress_file, ids)
                     /\ uploaded' = uploaded \cup {ids[i] : i \in 1..Len(ids)}
                     /\ uploaded_events'
                          = uploaded_events
                            \cup {chunk[i] : i \in 1..Len(chunk)}
                     /\ UNCHANGED failed_uploads_count
                ELSE /\ failed_uploads_count' = failed_uploads_count + 1
                     /\ UNCHANGED <<progress_file, uploaded,
                                    uploaded_events>>
    /\ user_events' = Tail(user_events)
    /\ pc' = IF Tail(user_events) = << >> THEN "upload" ELSE "uploading"
    /\ UNCHANGED <<events, dupe, res, pairVars, input, cleanVars, filterVars,
                   progress_at_start, completed_insert_ids, run>>

NextUpload == StartRun \/ SendBatch

SpecUpload == InitUpload /\ [][NextUpload]_vars

\* C20: an insert_id is in the progress file only after a batch with an
\* event of that insert_id was sent successfully, and no run sends an event
\* whose insert_id was in the progress file when the run started.
C20_ProgressFile ==
    /\ \A i \in 1..Len(progress_file) : progress_file[i] \in uploaded
    /\ \A id \in sent :
          \A i \in 1..Len(progress_at_start) : progress_at_start[i] # id

\* ------------------------------------------------------------------------
\* The three tools on the same input directory
\* ------------------------------------------------------------------------
InitEntry ==
    /\ events = << >> /\ dupe = None /\ res = None
    /\ PairIdle
    /\ input \in Inputs(CleanRecords)
    /\ pc \in {"parsed", "filter", "upload"}
    /\ insert_id_groups = << >> /\ dupe_analysis = << >> /\ final_events = None
    /\ analysis_files = << >>
    /\ non_uuid_events = << >> /\ included = << >>
    /\ progress_file = << >> /\ progress_at_start = << >>
    /\ completed_insert_ids = {}
    /\ user_events = << >> /\ sent = {} /\ uploaded = {} /\ run = 0
    /\ uploaded_events = {} /\ failed_uploads_count = 0

NextEntry == NextClean \/ NextFilter \/ NextUpload

SpecEntry == InitEntry /\ [][NextEntry]_vars

\* The positions of the input records without insert_id.
Keyless == {i \in 1..Len(input) : input[i].insert_id = None}

\* C14: a record without idempotency key is handled the same way by every
\* tool that consumes records: no tool lets it through to its output, be it
\* a duplicate group, the full export, the events the filter includes or a
\* batch to upload.
C14_KeylessHandledAlike ==
    \A i \in Keyless :
        /\ Grouped =>
              \A k \in DOMAIN insert_id_groups :
                  \A j \in 1..Len(insert_id_groups[k]) :
                      insert_id_groups[k][j] # input[i]
        /\ final_events # None => Unwrap(final_events)[i] # input[i]
        /\ i <= Len(included) => ~included[i]
        /\ ~to_batch_event(input[i]).ok
        /\ \A b \in 1..Len(user_events) :
              \A j \in 1..Len(user_events[b]) :
                  user_events[b][j].insert_id # None

\* ------------------------------------------------------------------------
\* clean_comparison_result (src/src/transform/difference_cleaner.rs) on one
\* comparison file
\* ------------------------------------------------------------------------
\* EventDifference
EventDifference(comparison_value, original_value) ==
    [comparison |-> comparison_value, original |-> original_value]

\* The fields other than event_properties that a comparison file may list.
DiffFieldNames ==
    {"app", "client_upload_time", "processed_time", "server_received_time",
     "uuid", "user_properties", "event_type", "user_id"}

\* The two sides of an event_properties difference: an object, or null for
\* an event without event_properties.
PropObjects ==
    [{"Property", "Drop Id"} -> PropValues]
    \cup [{"PropertyName", "Drop Id"} -> {"a"}]
    \cup {[k \in {"Property"} |-> "a"]}

PropSides == {JNull} \cup {<<"object", m>> : m \in PropObjects}

\* Differences: the flattened map from field name to EventDifference.
DifferenceMaps ==
    {[f \in S |->
        IF f = "event_properties" THEN ep
        ELSE EventDifference(<<"string", "new">>, <<"string", "old">>)] :
        S \in {T \cup E : T \in SUBSET DiffFieldNames,
                          E \in {{}, {"event_properties"}}},
        ep \in {EventDifference(c, o) :
                   c \in PropSides, o \in {<<"object", m>> : m \in PropObjects}}}

\* ComparisonResult
ComparisonResult(comparison_time, original_time, fields) ==
    [comparison_event |-> [client_upload_time |-> comparison_time],
     original_event |-> [client_upload_time |-> original_time],
     differences |-> fields]

ComparisonResults ==
    {ComparisonResult(ct, ot, fields) :
        ct \in {None, Some(2)}, ot \in {Some(1)}, fields \in DifferenceMaps}

\* A list of non-material fields that lacks uuid.
non_material_fields_without_uuid ==
    {"app", "client_upload_time", "processed_time", "server_received_time",
     "user_properties"}

non_material_fields ==
    {"app", "client_upload_time", "processed_time", "server_received_time",
     "uuid", "user_properties"}

\* difference_utils::has_property_name_differences
has_property_name_differences(comparison_props, original_props) ==
    IF Cardinality(DOMAIN comparison_props) # Cardinality(DOMAIN original_props)
    THEN FALSE
    ELSE IF DOMAIN comparison_props # DOMAIN original_props THEN FALSE
    ELSE Get(original_props, "Property") # Get(comparison_props, "Property")

\* HashMap::remove of every key in keys.
remove_fields(fields, keys) == [f \in (DOMAIN fields) \ keys |-> fields[f]]

\* The test that decides the removal of the event_properties difference.
removes_event_properties(c, fields) ==
    /\ "event_properties" \in DOMAIN fields
    /\ fields["event_properties"].comparison[1] = "object"
    /\ fields["event_properties"].original[1] = "object"
    /\ has_property_name_differences(fields["event_properties"].comparison[2],
                                     fields["event_properties"].original[2])
    /\ c.comparison_event.client_upload_time # None
    /\ c.original_event.client_upload_time # None

\* clean_comparison_result: the comparison as it is left, and the value
\* returned.
clean_comparison_result(c) ==
    LET removed == (DOMAIN c.differences) \cap non_material_fields
        material == remove_fields(c.differences, non_material_fields)
        props_removed == removes_event_properties(c, material)
        remaining == IF props_removed
                     THEN remove_fields(material, {"event_properties"})
                     ELSE material
    IN [comparison |-> [c EXCEPT !.differences = remaining],
        was_cleaned |-> \/ removed # {}
                        \/ props_removed
                        \/ DOMAIN remaining = {}]

InitDiff ==
    /\ events = << >> /\ dupe = None /\ res = None
    /\ pc = "differences"
    /\ eq = None /\ report = None /\ differences = None
    /\ comparison \in {Some(c) : c \in ComparisonResults}
    /\ cleaned = None
    /\ ToolsIdle

\* let was_cleaned = clean_comparison_result(&mut comparison);
CleanComparison ==
    /\ pc = "differences"
    /\ cleaned = None
    /\ cleaned' = Some(clean_comparison_result(Unwrap(comparison)))
    /\ UNCHANGED <<groupVars, eq, report, differences, comparison, toolVars>>

NextDiff == CleanComparison

SpecDiff == InitDiff /\ [][NextDiff]_vars

\* The differences of the comparison file before and after the cleaning.
FieldsBefore == Unwrap(comparison).differences

FieldsAfter == Unwrap(cleaned).comparison.differences

\* C21: after clean_comparison_result the differences hold none of app,
\* client_upload_time, processed_time, server_received_time, uuid and
\* user_properties; every entry of another field than event_properties is
\* as it was; and when nothing was removed and differences remain, the
\* function returns false.
C21_NonMaterialRemoved ==
    cleaned # None =>
        /\ DOMAIN FieldsAfter \subseteq DOMAIN FieldsBefore
        /\ (DOMAIN FieldsAfter)
              \cap {"app", "client_upload_time", "processed_time",
                    "server_received_time", "uuid", "user_properties"} = {}
        /\ \A f \in DOMAIN FieldsBefore :
              f \notin {"app", "client_upload_time", "processed_time",
                        "server_received_time", "uuid", "user_properties",
                        "event_properties"}
                  => f \in DOMAIN FieldsAfter /\ FieldsAfter[f] = FieldsBefore[f]
        /\ (FieldsAfter = FieldsBefore /\ DOMAIN FieldsAfter # {})
              => ~Unwrap(cleaned).was_cleaned

C21_Witness ==
    /\ cleaned # None
    /\ DOMAIN FieldsBefore = {"app", "uuid", "event_type", "event_properties"}
    /\ DOMAIN FieldsAfter = {"event_type", "event_properties"}
    /\ Unwrap(cleaned).was_cleaned

\* C22: the event_properties difference is removed only when the value of
\* "Property" is the only thing in which the two event_properties maps
\* differ: never when another property differs too.
C22_OnlyPropertyDiffers ==
    (/\ cleaned # None
     /\ "event_properties" \in DOMAIN FieldsBefore
     /\ "event_properties" \notin DOMAIN FieldsAfter)
        => LET c == FieldsBefore["event_properties"].comparison[2]
               o == FieldsBefore["event_properties"].original[2]
           IN \A k \in ((DOMAIN c) \cup (DOMAIN o)) \ {"Property"} :
                 Get(c, k) = Get(o, k)

\* ------------------------------------------------------------------------
\* The full export (SpecClean)
\* ------------------------------------------------------------------------
Exported_ == pc = "exported"

\* full_export_events.json, line by line.
TheExport == Unwrap(final_events)

\* The number of lines of the export that carry insert_id k.
ExportedWithKey(k) ==
    Cardinality({i \in 1..Len(TheExport) : TheExport[i].insert_id = Some(k)})

\* The number of times record e occurs in a list.
Occurrences(list, e) == Cardinality({i \in 1..Len(list) : list[i] = e})

\* C23: in Full mode a duplicate group resolved as KeepOne is represented in
\* the export by exactly one record, the resolved one: its key occurs once.
C23_KeepOneExportedOnce ==
    Exported_ =>
        \A k \in DOMAIN dupe_analysis :
            dupe_analysis[k].resolution.kind = "KeepOne" =>
                /\ ExportedWithKey(k) = 1
                /\ Occurrences(TheExport, dupe_analysis[k].resolution.kept[1]) = 1

\* C24: in Full mode both records kept by a KeepMany resolution are in the
\* export: the submitted record and the completed record under its
\* rewritten key.
C24_KeepManyBothExported ==
    Exported_ =>
        \A k \in DOMAIN dupe_analysis :
            dupe_analysis[k].resolution.kind = "KeepMany" =>
                \A j \in 1..Len(dupe_analysis[k].resolution.kept) :
                    Occurrences(TheExport,
                                dupe_analysis[k].resolution.kept[j]) >= 1

\* The input records that no resolution replaces: those of a group resolved
\* as Error, those whose key is not duplicated, and those without key.
Untouched(e) ==
    \/ e.insert_id = None
    \/ Unwrap(e.insert_id) \notin DOMAIN dupe_analysis
    \/ dupe_analysis[Unwrap(e.insert_id)].resolution.kind = "Error"

\* C25: in Full mode every record of a group resolved as Error, every record
\* whose key is not duplicated and every record without key is in the export
\* unchanged, as many times as in the input, whatever the other groups
\* resolve to.
C25_UntouchedRecordsExported ==
    Exported_ =>
        \A i \in 1..Len(input) :
            Untouched(input[i]) =>
                /\ TheExport[i] = input[i]
                /\ Occurrences(TheExport, input[i]) = Occurrences(input, input[i])

\* ------------------------------------------------------------------------
\* clean_duplicates_and_types on records of every shape
\* ------------------------------------------------------------------------
\* Records with and without insert_id, event_properties and
\* client_upload_time.
AnyRecords ==
    {[Exported(id, ty, t, Some("u1"), Some(1)) EXCEPT !.event_properties = p] :
        id \in {None, Some(<<"X">>)},
        ty \in {Some(Submitted), Some(Completed)},
        t \in {None, Some(1)},
        p \in {None, Some([k \in {"Property"} |-> "a"]),
               Some([k \in {"Property"} |-> "b"])}}

InitCleanAny ==
    /\ events = << >> /\ dupe = None /\ res = None
    /\ PairIdle
    /\ input \in Inputs(AnyRecords)
    /\ pc = "parsed"
    /\ insert_id_groups = << >> /\ dupe_analysis = << >> /\ final_events = None
    /\ analysis_files = << >>
    /\ non_uuid_events = << >> /\ included = << >>
    /\ progress_file = << >> /\ progress_at_start = << >>
    /\ completed_insert_ids = {}
    /\ user_events = << >> /\ sent = {} /\ uploaded = {} /\ run = 0
    /\ uploaded_events = {} /\ failed_uploads_count = 0

SpecCleanAny == InitCleanAny /\ [][NextClean]_vars

\* C26: whatever the parsed input (records without key, event_properties on
\* one side only, upload times missing or equal), grouping, classifying and
\* resolving every duplicate group ends without a panic: neither the
\* "Impossible condition" branch nor the unwrap of a missing insert_id is
\* reached.
C26_NoPanic ==
    /\ pc # "panicked"
    /\ \A k \in DOMAIN dupe_analysis :
          /\ dupe_analysis[k].dupe_type # Panic
          /\ dupe_analysis[k].resolution # ResolutionPanic
          /\ dupe_analysis[k].events[1].insert_id # None

C26_Witness ==
    /\ pc = "exported"
    /\ Len(input) = 3
    /\ input[1].insert_id = None
    /\ input[2].insert_id = Some(<<"X">>) /\ input[3].insert_id = Some(<<"X">>)
    /\ input[2].event_properties = None /\ input[3].event_properties # None
    /\ input[2].client_upload_time = None
    /\ input[3].client_upload_time = None
    /\ dupe_analysis[<<"X">>].resolution.kind = "Error"

\* ------------------------------------------------------------------------
\* The fallback rule (Spec)
\* ------------------------------------------------------------------------
\* No rule before the equality check has set a type.
NoRuleFired ==
    event_properties_check(pre_order_check(Acc(None, FALSE), events),
                           events).tentative = None

Swapped == <<events[2], events[1]>>

\* C28: for two records a and b under one key, [a, b] and [b, a] get the
\* same tag, and the same list of sub-type tags for Multi; and when their
\* client_upload_time differ, the resolution keeps the same records for both
\* orders.
C28_OrderIndependent ==
    Len(events) = 2 =>
        /\ Classified =>
              /\ TheDupe.tag = from_events(Swapped).tag
              /\ Tags(TheDupe) = Tags(from_events(Swapped))
        /\ (/\ Resolved
            /\ events[1].client_upload_time # events[2].client_upload_time)
              => /\ TheRes.kind = resolution(from_events(Swapped)).kind
                 /\ TheRes.kept = resolution(from_events(Swapped)).kept

C28_Witness ==
    /\ Resolved /\ Len(events) = 2
    /\ events[1].client_upload_time = Some(2)
    /\ events[2].client_upload_time = Some(1)
    /\ TheDupe.tag = "PropertyNameChange"
    /\ from_events(Swapped).tag = "PropertyNameChange"
    /\ TheRes.kind = "KeepOne"
    /\ TheRes.kept
         = <<[events[2] EXCEPT !.event_properties = events[1].event_properties]>>
    /\ resolution(from_events(Swapped)).kept = TheRes.kept

\* ------------------------------------------------------------------------
\* Resuming an upload (SpecUpload)
\* ------------------------------------------------------------------------
\* A run has ended in which batches were sent and none of them failed.
RunWithoutFailure ==
    pc = "upload" /\ run >= 1 /\ sent # {} /\ failed_uploads_count = 0

\* C29: once the uploader, re-run on the same input and project, has had a
\* run in which every batch succeeded, every input record that converts to
\* a batch event has been in a successfully sent batch.
C29_NothingLeftBehind ==
    RunWithoutFailure =>
        \A i \in 1..Len(input) :
            to_batch_event(input[i]).ok
                => to_batch_event(input[i]).value \in uploaded_events

\* ------------------------------------------------------------------------
\* The per-group analysis files of a run with two duplicate groups
\* ------------------------------------------------------------------------
FileKeys ==
    {<<"X">>, <<"X", " ">>, <<"X", "_">>, <<"X", "/">>, <<"X", "-">>,
     <<UuidText>>}

\* Two records under one insert_id followed by two under another.
FileInputs ==
    {<<Exported(Some(k1), t1, Some(1), Some("u1"), Some(1)),
       Exported(Some(k1), t2, Some(1), Some("u1"), Some(1)),
       Exported(Some(k2), t3, Some(1), Some("u1"), Some(1)),
       Exported(Some(k2), t4, Some(1), Some("u1"), Some(1))>> :
        k1 \in FileKeys, k2 \in FileKeys,
        t1 \in {Some(Submitted)}, t2 \in {Some(Submitted), Some(Completed)},
        t3 \in {Some(Submitted)}, t4 \in {Some(Submitted), Some(Completed)}}

InitFiles ==
    /\ events = << >> /\ dupe = None /\ res = None
    /\ PairIdle
    /\ input \in FileInputs
    /\ pc = "parsed"
    /\ insert_id_groups = << >> /\ dupe_analysis = << >> /\ final_events = None
    /\ analysis_files = << >>
    /\ non_uuid_events = << >> /\ included = << >>
    /\ progress_file = << >> /\ progress_at_start = << >>
    /\ completed_insert_ids = {}
    /\ user_events = << >> /\ sent = {} /\ uploaded = {} /\ run = 0
    /\ uploaded_events = {} /\ failed_uploads_count = 0

SpecFiles == InitFiles /\ [][NextClean]_vars

\* C30: two different duplicate groups of one run with the same DupeType tag
\* are written to two different analysis files, so the file of each group
\* holds the analysis of that group.
C30_OneFilePerGroup ==
    pc \in {"written", "exported"} =>
        /\ \A k1, k2 \in DOMAIN dupe_analysis :
              (/\ k1 # k2
               /\ dupe_analysis[k1].dupe_type.tag = dupe_analysis[k2].dupe_type.tag)
                  => file_path(dupe_analysis[k1]) # file_path(dupe_analysis[k2])
        /\ \A k \in DOMAIN dupe_analysis :
              analysis_files[file_path(dupe_analysis[k])] = dupe_analysis[k]

====
